---- MODULE Spec2Model ----
(***************************************************************************)
(* Model of the prompt repository of codepromptu                           *)
(* (src/data/prompt_repository.py, class MySQLPromptRepository).           *)
(*                                                                         *)
(* The state is the content of the three tables the SQL statements of the  *)
(* repository read and write: prompts, tags and prompt_tags.  Every SQL    *)
(* statement is an operator from a database value to a database value,     *)
(* and every method of the repository is an operator composed of its       *)
(* statements in the order of the source: the effect of one call that no   *)
(* other request disturbs.                                                 *)
(*                                                                         *)
(* A method sends its statements one db.cursor.execute at a time and no    *)
(* transaction spans them, so the statements of concurrent requests        *)
(* interleave.  The state machine therefore has one action per statement,  *)
(* executed by some request.  Any number of requests may be in progress,   *)
(* and a statement that is not the first of its method can always be the   *)
(* next one of a request whose earlier statements left the tables as they  *)
(* are (an UPDATE that writes the values the row holds, an upsert of a tag *)
(* string that is in the table, an ownership check, which only reads), so  *)
(* apart from the two guards stated at ExecDeletePromptRow and             *)
(* ExecInsertPromptTag the positions of the requests need not be kept:     *)
(* the behaviours are the statement sequences concurrent calls produce.    *)
(* last names the method whose statement ran last and the exception it     *)
(* ended in, "ok" when it raised none.  ConcSpec adds the position of one  *)
(* call, inflight, for the properties that speak of the statements of one  *)
(* and the same call; in Spec inflight stays Idle.                         *)
(*                                                                         *)
(* A user context is modelled by its username, the only field of User the  *)
(* repository reads; the absent user (Python None, SQL NULL) is None.      *)
(* The store-managed columns created_at / updated_at are not modelled.     *)
(* The tables carry only what the statements of the source rely on: the    *)
(* unique key on tags.tag (ON DUPLICATE KEY), auto-increment ids, and no   *)
(* uniqueness and no cascading rule on prompt_tags.                        *)
(***************************************************************************)
EXTENDS Bags, FiniteSets, Integers, Sequences, TLC

VARIABLES prompts, tags, prompt_tags, next_prompt_id, next_tag_id, guid_seq, last,
          inflight

vars == <<prompts, tags, prompt_tags, next_prompt_id, next_tag_id, guid_seq, last,
          inflight>>

(***************************************************************************)
(* The bound of the model and the input domains.  prompt_tags has no       *)
(* uniqueness constraint, so the number of its rows is capped; Guids is    *)
(* the universe of identifiers make_guid hands out, so at most             *)
(* Cardinality(Guids) prompts are ever created.                            *)
(***************************************************************************)
MaxAssocRows == 2

None == "None"
Users == {"alice", "bob"}
Contexts == Users \cup {None}
Tags == {"a", "b"}
Payloads == { [content |-> "Hi", display_name |-> "greet"],
              [content |-> "Yo", display_name |-> "bye"] }
Names == {p.display_name : p \in Payloads}

TagLists == {<<>>, <<"a">>, <<"a", "b">>, <<"b", "b">>}

SeqToSet(s) == {s[i] : i \in DOMAIN s}

(***************************************************************************)
(* core.make_guid: a fresh opaque identifier on every call.                *)
(***************************************************************************)
make_guid(n) == "g" \o ToString(n)

Guids == {"g1", "g2"}

(***************************************************************************)
(* The database value the statements work on.                              *)
(***************************************************************************)
DB == [prompts |-> prompts, tags |-> tags, prompt_tags |-> prompt_tags,
       next_prompt_id |-> next_prompt_id, next_tag_id |-> next_tag_id]

\* Rows of a bag: the sum of the copies of the elements of S in bag B.
RECURSIVE CopiesOfAll(_, _)
CopiesOfAll(B, S) ==
    IF S = {} THEN 0
    ELSE LET x == CHOOSE y \in S : TRUE
         IN CopiesIn(x, B) + CopiesOfAll(B, S \ {x})

AssocRows(B) == CopiesOfAll(B, BagToSet(B))

\* DELETE of the rows of bag B that are in the set S.
BagWithout(B, S) == [x \in (BagToSet(B) \ S) |-> B[x]]

(***************************************************************************)
(* The ownership scope predicates, one per statement that carries one.     *)
(***************************************************************************)
\* Mutant: the anonymous branch carries no author clause.
get_prompt_scope_no_null_clause(author, user) ==
    IF user # None THEN author = user ELSE TRUE

\* get_prompt: "AND prompts.author = %s" / "AND prompts.author IS NULL"
get_prompt_scope(author, user) ==
    IF user # None THEN author = user ELSE author = None

\* get_prompt_by_name
get_prompt_by_name_scope(author, user) ==
    IF user # None THEN author = user ELSE author = None

\* list_prompts
list_prompts_scope(author, user) ==
    IF user # None THEN author = user ELSE author = None

\* Mutant: the anonymous branch carries no author clause.
add_tag_scope_no_null_clause(author, user) ==
    IF user # None THEN author = user ELSE TRUE

\* add_tag_to_prompt
add_tag_scope(author, user) ==
    IF user # None THEN author = user ELSE author = None

\* remove_tag_from_prompt
remove_tag_scope(author, user) ==
    IF user # None THEN author = user ELSE author = None

\* remove_all_tags_from_prompt ("if user:")
remove_all_tags_scope(author, user) ==
    IF user # None THEN author = user ELSE author = None

(***************************************************************************)
(* The SQL statements.                                                     *)
(***************************************************************************)
\* INSERT INTO prompts (guid, content, display_name, author) VALUES (...)
InsertPrompt(db, guid, content, display_name, author) ==
    [db EXCEPT
       !.prompts = @ \cup {[id |-> db.next_prompt_id, guid |-> guid,
                            content |-> content, display_name |-> display_name,
                            author |-> author]},
       !.next_prompt_id = @ + 1]

\* Mutant: the UPDATE has lost its WHERE clause.
UpdatePromptRow_no_where(db, guid, content, display_name, author) ==
    [db EXCEPT
       !.prompts = {[p EXCEPT !.content = content,
                              !.display_name = display_name,
                              !.author = author] : p \in @}]

\* UPDATE prompts SET content, display_name, author WHERE guid = %s
UpdatePromptRow(db, guid, content, display_name, author) ==
    [db EXCEPT
       !.prompts = {IF p.guid = guid
                    THEN [p EXCEPT !.content = content,
                                   !.display_name = display_name,
                                   !.author = author]
                    ELSE p : p \in @}]

\* Mutant: the DELETE has lost its WHERE clause.
DeletePromptRow_no_where(db, guid) ==
    [db EXCEPT !.prompts = {}]

\* DELETE FROM prompts WHERE guid = %s
DeletePromptRow(db, guid) ==
    [db EXCEPT !.prompts = {p \in @ : p.guid # guid}]

\* Mutant: a plain INSERT on a tag column without unique key.
UpsertTag_plain_insert(db, tag) ==
    [db EXCEPT !.tags = @ \cup {[id |-> db.next_tag_id, tag |-> tag]},
               !.next_tag_id = @ + 1]

\* INSERT INTO tags (tag) VALUES (%s) AS new ON DUPLICATE KEY UPDATE tag = new.tag
UpsertTag(db, tag) ==
    IF \E t \in db.tags : t.tag = tag
    THEN db
    ELSE [db EXCEPT !.tags = @ \cup {[id |-> db.next_tag_id, tag |-> tag]},
                    !.next_tag_id = @ + 1]

\* INSERT INTO prompt_tags SELECT prompts.id, tags.id FROM prompts, tags
\*  WHERE prompts.guid = %s AND tags.tag = %s AND <scope>
InsertPromptTag(db, guid, tag, user) ==
    LET ps == {p \in db.prompts : p.guid = guid /\ add_tag_scope(p.author, user)}
        ts == {t \in db.tags : t.tag = tag}
        rows == {<<p.id, t.id>> : p \in ps, t \in ts}
    IN [db EXCEPT !.prompt_tags = @ (+) SetToBag(rows)]

\* DELETE prompt_tags FROM prompt_tags INNER JOIN prompts INNER JOIN tags
\*  WHERE prompts.guid = %s AND tags.tag = %s AND <scope>
DeletePromptTag(db, guid, tag, user) ==
    LET rows == {x \in BagToSet(db.prompt_tags) :
                   /\ \E p \in db.prompts :
                        p.id = x[1] /\ p.guid = guid /\ remove_tag_scope(p.author, user)
                   /\ \E t \in db.tags : t.id = x[2] /\ t.tag = tag}
    IN [db EXCEPT !.prompt_tags = BagWithout(@, rows)]

(***************************************************************************)
(* The methods of MySQLPromptRepository.                                   *)
(***************************************************************************)
\* DELETE prompt_tags FROM prompt_tags INNER JOIN prompts
\*  WHERE prompts.guid = %s AND <scope>
remove_all_tags_from_prompt(db, guid, user) ==
    LET rows == {x \in BagToSet(db.prompt_tags) :
                   \E p \in db.prompts :
                      p.id = x[1] /\ p.guid = guid /\ remove_all_tags_scope(p.author, user)}
    IN [db EXCEPT !.prompt_tags = BagWithout(@, rows)]

add_tag_to_prompt(db, guid, tag, user) ==
    InsertPromptTag(UpsertTag(db, tag), guid, tag, user)

\* Mutant: the tag row is deleted with its last association.
remove_tag_from_prompt_collects_tag(db, guid, tag, user) ==
    LET d == DeletePromptTag(db, guid, tag, user)
    IN [d EXCEPT !.tags = {t \in @ : \E x \in BagToSet(d.prompt_tags) : x[2] = t.id}]

remove_tag_from_prompt(db, guid, tag, user) ==
    DeletePromptTag(db, guid, tag, user)

\* "for tag in tags: self.add_tag_to_prompt(guid, tag)": the user is not passed.
RECURSIVE AddEachTag(_, _, _)
AddEachTag(db, guid, tagList) ==
    IF tagList = <<>> THEN db
    ELSE AddEachTag(add_tag_to_prompt(db, guid, Head(tagList), None), guid, Tail(tagList))

\* "self.remove_all_tags_from_prompt(guid)": the user is not passed.
_update_tags(db, guid, tagList) ==
    AddEachTag(remove_all_tags_from_prompt(db, guid, None), guid, tagList)

create_prompt(db, prompt_guid, content, display_name, tagList, author) ==
    [db  |-> _update_tags(InsertPrompt(db, prompt_guid, content, display_name, author),
                          prompt_guid, tagList),
     ret |-> prompt_guid]

\* Mutant: the tags are replaced before the row is updated.
update_prompt_tags_first(db, guid, content, display_name, tagList, user) ==
    UpdatePromptRow(_update_tags(db, guid, tagList), guid, content, display_name, user)

update_prompt(db, guid, content, display_name, tagList, user) ==
    _update_tags(UpdatePromptRow(db, guid, content, display_name, user), guid, tagList)

\* Mutant: "if user and author != user.username", which lets the absent user pass.
_check_prompt_ownership_skips_anonymous(db, guid, user) ==
    LET rows == {p \in db.prompts : p.guid = guid}
    IN IF rows = {} THEN "TypeError"
       ELSE LET author == (CHOOSE p \in rows : TRUE).author
            IN IF user # None /\ author # user
               THEN "Unauthorized"
               ELSE "ok"

\* "SELECT author FROM prompts WHERE guid = %s", fetchone()['author'], and the
\* comparison with the acting user.  fetchone() is None when no row has the
\* guid, and subscripting it raises TypeError.
_check_prompt_ownership(db, guid, user) ==
    LET rows == {p \in db.prompts : p.guid = guid}
    IN IF rows = {} THEN "TypeError"
       ELSE LET author == (CHOOSE p \in rows : TRUE).author
            IN IF author # (IF user # None THEN user ELSE None)
               THEN "Unauthorized"
               ELSE "ok"

\* Mutant: the row is deleted before the ownership check is made.
delete_prompt_check_after_delete(db, guid, user) ==
    LET check == _check_prompt_ownership(db, guid, user)
    IN IF check = "TypeError"
       THEN [db |-> db, outcome |-> check]
       ELSE [db |-> remove_all_tags_from_prompt(DeletePromptRow(db, guid), guid, None),
             outcome |-> check]

delete_prompt(db, guid, user) ==
    LET check == _check_prompt_ownership(db, guid, user)
    IN IF check # "ok"
       THEN [db |-> db, outcome |-> check]
       ELSE [db |-> remove_all_tags_from_prompt(DeletePromptRow(db, guid), guid, None),
             outcome |-> "ok"]

(***************************************************************************)
(* The read side.                                                          *)
(***************************************************************************)
\* GROUP_CONCAT(tags.tag) over prompts LEFT JOIN prompt_tags LEFT JOIN tags:
\* one tag string per association row of the prompt whose tag row exists.
\* The joined string is held as the bag of the strings it joins (SQL fixes no
\* order for them); the empty bag is the NULL of a prompt without such a row.
GroupConcatTags(db, pid) ==
    LET strings == {t.tag : t \in {t \in db.tags : <<pid, t.id>> \in BagToSet(db.prompt_tags)}}
    IN [s \in strings |->
          CopiesOfAll(db.prompt_tags, {<<pid, t.id>> : t \in {t \in db.tags : t.tag = s}})]

\* The row "SELECT prompts.*, GROUP_CONCAT(tags.tag) as tags ... GROUP BY
\* prompts.id" yields for prompt row p.  prompts.* also carries created_at and
\* updated_at, which the database fills and no statement of the repository
\* reads or writes; the row is held without them.
SelectedRow(db, p) ==
    [id |-> p.id, guid |-> p.guid, content |-> p.content,
     display_name |-> p.display_name, author |-> p.author,
     tags |-> GroupConcatTags(db, p.id)]

\* fetchone() of a query that matched no row.
NoRow == [id |-> 0, guid |-> "-", content |-> "-", display_name |-> "-",
          author |-> None, tags |-> EmptyBag]

\* "Prompt(*result)": Prompt is a pydantic BaseModel (core/models.py), whose
\* constructor takes keyword arguments only; the columns of the row are passed
\* positionally, which raises TypeError whatever the row holds.
Prompt(result) == "TypeError"

get_prompt(db, guid, user) ==
    LET rows == {p \in db.prompts : p.guid = guid /\ get_prompt_scope(p.author, user)}
    IN IF rows = {}
       THEN [outcome |-> "RecordNotFound", result |-> NoRow]
       ELSE LET result == SelectedRow(db, CHOOSE p \in rows : TRUE)
            IN [outcome |-> Prompt(result), result |-> result]

\* fetchone() of a query that can match several rows: each of them is a
\* possible result.
get_prompt_by_name(db, name, user) ==
    LET rows == {p \in db.prompts :
                   p.display_name = name /\ get_prompt_by_name_scope(p.author, user)}
    IN IF rows = {}
       THEN {[outcome |-> "RecordNotFound", result |-> NoRow]}
       ELSE {[outcome |-> Prompt(SelectedRow(db, p)), result |-> SelectedRow(db, p)] :
               p \in rows}

RECURSIVE RowsInIdOrder(_, _)
RowsInIdOrder(db, S) ==
    IF S = {} THEN <<>>
    ELSE LET m == CHOOSE r \in S : \A o \in S : r.id <= o.id
         IN <<SelectedRow(db, m)>> \o RowsInIdOrder(db, S \ {m})

\* fetchall() of the scoped query, grouped by prompts.id, and
\* "[Prompt(*result) for result in results]": the empty list when no row is
\* in scope, the exception of the first Prompt(*result) otherwise.
list_prompts(db, user) ==
    LET results == RowsInIdOrder(db, {p \in db.prompts : list_prompts_scope(p.author, user)})
    IN [outcome |-> IF results = <<>> THEN "ok" ELSE Prompt(results[1]),
        results |-> results]

(***************************************************************************)
(* core/exceptions.py: the status code of each exception class, and the    *)
(* exception class behind each outcome a repository call can end in.       *)
(* TypeError is not a PromptException and has no entry.                    *)
(***************************************************************************)
\* Mutant: the failed ownership check is answered 403 Forbidden.
EXCEPTION_STATUS_CODES_unauthorized_403 ==
    [DataValidationError |-> 400, ConstraintViolationError |-> 409,
     PromptException |-> 500, DBConnectionError |-> 500,
     RecordNotFoundError |-> 404, UnauthorizedError |-> 403,
     OperationNotAllowedError |-> 403, BadRequestError |-> 400,
     EndpointNotFoundError |-> 404, AuthenticationError |-> 401]

EXCEPTION_STATUS_CODES ==
    [DataValidationError |-> 400, ConstraintViolationError |-> 409,
     PromptException |-> 500, DBConnectionError |-> 500,
     RecordNotFoundError |-> 404, UnauthorizedError |-> 401,
     OperationNotAllowedError |-> 403, BadRequestError |-> 400,
     EndpointNotFoundError |-> 404, AuthenticationError |-> 401]

\* raise UnauthorizedError(...) / raise core.exceptions.RecordNotFoundError(...)
ExceptionClassOf(outcome) ==
    CASE outcome = "Unauthorized"   -> "UnauthorizedError"
      [] outcome = "RecordNotFound" -> "RecordNotFoundError"

(***************************************************************************)
(* The state machine: one action per statement a request executes.         *)
(***************************************************************************)
Install(db) ==
    /\ prompts' = db.prompts
    /\ tags' = db.tags
    /\ prompt_tags' = db.prompt_tags
    /\ next_prompt_id' = db.next_prompt_id
    /\ next_tag_id' = db.next_tag_id

Fits(db) == AssocRows(db.prompt_tags) <= MaxAssocRows

\* The guids make_guid has handed out.
CreatedGuids == {g \in Guids : \E n \in 1..guid_seq : g = make_guid(n)}

\* No call is followed.
Idle == [pc |-> "-", guid |-> "-", rest |-> <<>>]

Init ==
    /\ prompts = {}
    /\ tags = {}
    /\ prompt_tags = EmptyBag
    /\ next_prompt_id = 1
    /\ next_tag_id = 1
    /\ guid_seq = 0
    /\ last = [op |-> "init", outcome |-> "ok"]
    /\ inflight = Idle

\* create_prompt: make_guid and INSERT INTO prompts.
ExecInsertPrompt ==
    \E pl \in Payloads, author \in Contexts :
       LET prompt_guid == make_guid(guid_seq + 1)
       IN /\ prompt_guid \in Guids
          /\ Install(InsertPrompt(DB, prompt_guid, pl.content, pl.display_name, author))
          /\ guid_seq' = guid_seq + 1
          /\ last' = [op |-> "create_prompt", outcome |-> "ok"]
          /\ UNCHANGED inflight

\* update_prompt: UPDATE prompts.
ExecUpdatePromptRow ==
    \E guid \in Guids, pl \in Payloads, user \in Contexts :
       /\ Install(UpdatePromptRow(DB, guid, pl.content, pl.display_name, user))
       /\ UNCHANGED guid_seq
       /\ last' = [op |-> "update_prompt", outcome |-> "ok"]
       /\ UNCHANGED inflight

\* delete_prompt: self._check_prompt_ownership(guid, user).  When it raises,
\* the call ends; when it passes, the DELETE of the call is still to come.
ExecCheckPromptOwnership ==
    \E guid \in Guids, user \in Contexts :
       /\ UNCHANGED <<prompts, tags, prompt_tags, next_prompt_id, next_tag_id, guid_seq>>
       /\ last' = [op |-> "_check_prompt_ownership",
                   outcome |-> _check_prompt_ownership(DB, guid, user)]
       /\ UNCHANGED inflight

\* delete_prompt: DELETE FROM prompts, reached after a passed ownership check,
\* hence for a guid that has been created; the row may be gone or may have
\* changed its author since the check.
ExecDeletePromptRow ==
    \E guid \in CreatedGuids :
       /\ Install(DeletePromptRow(DB, guid))
       /\ UNCHANGED guid_seq
       /\ last' = [op |-> "delete_prompt", outcome |-> "ok"]
       /\ UNCHANGED inflight

\* remove_all_tags_from_prompt: its one statement, DELETE prompt_tags.  The
\* calls inside _update_tags (create_prompt, update_prompt) and delete_prompt
\* pass no user; a direct call passes the user of its request.
ExecRemoveAllTags ==
    \E guid \in Guids, user \in Contexts :
       /\ Install(remove_all_tags_from_prompt(DB, guid, user))
       /\ UNCHANGED guid_seq
       /\ last' = [op |-> "remove_all_tags_from_prompt", outcome |-> "ok"]
       /\ UNCHANGED inflight

\* add_tag_to_prompt: INSERT INTO tags ... ON DUPLICATE KEY UPDATE.
ExecUpsertTag ==
    \E tag \in Tags :
       /\ Install(UpsertTag(DB, tag))
       /\ UNCHANGED guid_seq
       /\ last' = [op |-> "add_tag_to_prompt", outcome |-> "ok"]
       /\ UNCHANGED inflight

\* add_tag_to_prompt: INSERT INTO prompt_tags ... SELECT, reached after the
\* upsert of the tag string, hence with the string in the tag table.
ExecInsertPromptTag ==
    \E guid \in Guids, tag \in Tags, user \in Contexts :
       LET db == InsertPromptTag(DB, guid, tag, user)
       IN /\ \E t \in tags : t.tag = tag
          /\ Fits(db)
          /\ Install(db)
          /\ UNCHANGED guid_seq
          /\ last' = [op |-> "add_tag_to_prompt", outcome |-> "ok"]
          /\ UNCHANGED inflight

\* remove_tag_from_prompt: its one statement, DELETE prompt_tags.
ExecDeletePromptTag ==
    \E guid \in Guids, tag \in Tags, user \in Contexts :
       /\ Install(remove_tag_from_prompt(DB, guid, tag, user))
       /\ UNCHANGED guid_seq
       /\ last' = [op |-> "remove_tag_from_prompt", outcome |-> "ok"]
       /\ UNCHANGED inflight

GetPrompt ==
    \E guid \in Guids, user \in Contexts :
       /\ UNCHANGED <<prompts, tags, prompt_tags, next_prompt_id, next_tag_id, guid_seq>>
       /\ last' = [op |-> "get_prompt", outcome |-> get_prompt(DB, guid, user).outcome]
       /\ UNCHANGED inflight

GetPromptByName ==
    \E name \in Names, user \in Contexts :
       \E r \in get_prompt_by_name(DB, name, user) :
          /\ UNCHANGED <<prompts, tags, prompt_tags, next_prompt_id, next_tag_id, guid_seq>>
          /\ last' = [op |-> "get_prompt_by_name", outcome |-> r.outcome]
          /\ UNCHANGED inflight

ListPrompts ==
    \E user \in Contexts :
       /\ UNCHANGED <<prompts, tags, prompt_tags, next_prompt_id, next_tag_id, guid_seq>>
       /\ last' = [op |-> "list_prompts", outcome |-> list_prompts(DB, user).outcome]
       /\ UNCHANGED inflight

Next ==
    \/ ExecInsertPrompt
    \/ ExecUpdatePromptRow
    \/ ExecCheckPromptOwnership
    \/ ExecDeletePromptRow
    \/ ExecRemoveAllTags
    \/ ExecUpsertTag
    \/ ExecInsertPromptTag
    \/ ExecDeletePromptTag
    \/ GetPrompt
    \/ GetPromptByName
    \/ ListPrompts

Spec == Init /\ [][Next]_vars

(***************************************************************************)
(* ConcSpec: the statements of all requests as in Spec, and among them one *)
(* create_prompt or update_prompt call made with a user that is followed   *)
(* statement by statement.  inflight is the position of that call: the     *)
(* guid it works on, pc its next statement, rest the tags of its list      *)
(* still to be added.  Its statements are statements Spec has as well;     *)
(* following the call tells which statements one call made.  The three     *)
(* read methods write no table and are left to Spec.                       *)
(***************************************************************************)
\* The tag lists of the followed call.
FollowedTagLists == {<<>>, <<"a">>}

\* create_prompt up to and including its INSERT INTO prompts.
BeginCreatePrompt ==
    \E pl \in Payloads, tl \in FollowedTagLists, author \in Users :
       LET prompt_guid == make_guid(guid_seq + 1)
       IN /\ inflight = Idle
          /\ prompt_guid \in Guids
          /\ Install(InsertPrompt(DB, prompt_guid, pl.content, pl.display_name, author))
          /\ guid_seq' = guid_seq + 1
          /\ last' = [op |-> "create_prompt", outcome |-> "ok"]
          /\ inflight' = [pc |-> "remove_all", guid |-> prompt_guid, rest |-> tl]

\* update_prompt up to and including its UPDATE prompts.
BeginUpdatePrompt ==
    \E guid \in Guids, pl \in Payloads, tl \in FollowedTagLists, user \in Users :
       /\ inflight = Idle
       /\ Install(UpdatePromptRow(DB, guid, pl.content, pl.display_name, user))
       /\ UNCHANGED guid_seq
       /\ last' = [op |-> "update_prompt", outcome |-> "ok"]
       /\ inflight' = [pc |-> "remove_all", guid |-> guid, rest |-> tl]

\* _update_tags: self.remove_all_tags_from_prompt(guid)
StepRemoveAllTags ==
    /\ inflight.pc = "remove_all"
    /\ Install(remove_all_tags_from_prompt(DB, inflight.guid, None))
    /\ UNCHANGED guid_seq
    /\ last' = [op |-> "remove_all_tags_from_prompt", outcome |-> "ok"]
    /\ inflight' = IF inflight.rest = <<>> THEN Idle
                   ELSE [inflight EXCEPT !.pc = "upsert"]

\* _update_tags: self.add_tag_to_prompt(guid, tag), its INSERT INTO tags.
StepUpsertTag ==
    /\ inflight.pc = "upsert"
    /\ Install(UpsertTag(DB, Head(inflight.rest)))
    /\ UNCHANGED guid_seq
    /\ last' = [op |-> "add_tag_to_prompt", outcome |-> "ok"]
    /\ inflight' = [inflight EXCEPT !.pc = "link"]

\* _update_tags: self.add_tag_to_prompt(guid, tag), its INSERT INTO
\* prompt_tags; then the next tag of the list, or the end of the call.
StepLinkTag ==
    /\ inflight.pc = "link"
    /\ Fits(InsertPromptTag(DB, inflight.guid, Head(inflight.rest), None))
    /\ Install(InsertPromptTag(DB, inflight.guid, Head(inflight.rest), None))
    /\ UNCHANGED guid_seq
    /\ last' = [op |-> "add_tag_to_prompt", outcome |-> "ok"]
    /\ inflight' = IF Tail(inflight.rest) = <<>> THEN Idle
                   ELSE [inflight EXCEPT !.pc = "upsert", !.rest = Tail(inflight.rest)]

ConcNext ==
    \/ ExecInsertPrompt
    \/ ExecUpdatePromptRow
    \/ ExecCheckPromptOwnership
    \/ ExecDeletePromptRow
    \/ ExecRemoveAllTags
    \/ ExecUpsertTag
    \/ ExecInsertPromptTag
    \/ ExecDeletePromptTag
    \/ BeginCreatePrompt
    \/ BeginUpdatePrompt
    \/ StepRemoveAllTags
    \/ StepUpsertTag
    \/ StepLinkTag

ConcSpec == Init /\ [][ConcNext]_vars

(***************************************************************************)
(* Vocabulary of the properties.  A property about a call applies the      *)
(* operator of the method, the call no other request disturbs, to the      *)
(* tables of every reachable state.                                        *)
(***************************************************************************)
Stored(db, guid) == \E p \in db.prompts : p.guid = guid

RowOf(db, guid) == CHOOSE p \in db.prompts : p.guid = guid

AuthorOf(db, guid) == RowOf(db, guid).author

\* The tag set of the row the scoped query of get_prompt fetches for guid.
TagSetOf(db, guid, user) == BagToSet(get_prompt(db, guid, user).result.tags)

\* The tag set of the prompt row with the guid, whatever its owner.
TagsOfGuid(db, guid) ==
    UNION {BagToSet(GroupConcatTags(db, p.id)) : p \in {p \in db.prompts : p.guid = guid}}

\* A guid no call of make_guid returns.
NoGuid == "g0"

\* The guids of the rows the scoped query of list_prompts fetches.
ListedGuids(db, user) ==
    LET l == list_prompts(db, user).results IN {l[i].guid : i \in DOMAIN l}

NoOrphans(db) ==
    \A x \in BagToSet(db.prompt_tags) :
       /\ \E p \in db.prompts : p.id = x[1]
       /\ \E t \in db.tags : t.id = x[2]

(***************************************************************************)
(* C1 - Read isolation.  For every stored prompt and every context whose   *)
(* username differs from the prompt's author, get_prompt raises            *)
(* RecordNotFound (never Unauthorized, never the prompt), exactly the      *)
(* result it gives for a guid that is not stored.                          *)
(***************************************************************************)
C1_ReadIsolation ==
    \A g \in Guids, V \in Contexts :
       (Stored(DB, g) /\ V # AuthorOf(DB, g)) =>
          /\ get_prompt(DB, g, V).outcome = "RecordNotFound"
          /\ get_prompt(DB, g, V) = get_prompt(DB, NoGuid, V)

\* A get_prompt has just raised RecordNotFound while every guid is stored, one
\* of them owned by alice: the read was out of scope, not of a missing guid.
C1_Witness ==
    /\ last = [op |-> "get_prompt", outcome |-> "RecordNotFound"]
    /\ \A g \in Guids : Stored(DB, g)
    /\ \E g \in Guids :
          /\ AuthorOf(DB, g) = "alice"
          /\ get_prompt(DB, g, "bob").outcome = "RecordNotFound"
          /\ get_prompt(DB, g, None).outcome = "RecordNotFound"

(***************************************************************************)
(* C2 - Create/get round trip in every owner context.  After               *)
(* g = create_prompt(content, display_name, T, U), get_prompt(g, U)        *)
(* succeeds and returns that content, display_name, author U and the tag   *)
(* set of T.                                                               *)
(***************************************************************************)
RoundTrips(db, guid, pl, tagList, U) ==
    LET r == get_prompt(db, guid, U)
    IN /\ r.outcome = "ok"
       /\ r.result.content = pl.content
       /\ r.result.display_name = pl.display_name
       /\ r.result.author = U
       /\ BagToSet(r.result.tags) = SeqToSet(tagList)

C2_CreateGetRoundTrip ==
    \A pl \in Payloads, tl \in TagLists, U \in Contexts :
       LET r == create_prompt(DB, make_guid(guid_seq + 1), pl.content,
                              pl.display_name, tl, U)
       IN (make_guid(guid_seq + 1) \in Guids) => RoundTrips(r.db, r.ret, pl, tl, U)

(***************************************************************************)
(* C3 - Unauthorized delete changes nothing.  delete_prompt of a stored    *)
(* prompt by a context that is not its author raises Unauthorized and      *)
(* leaves the three tables as they were; the query of the owner's          *)
(* get_prompt fetches the prompt and its tags as before.                   *)
(***************************************************************************)
C3_UnauthorizedDeleteChangesNothing ==
    \A g \in Guids, U \in Contexts :
       (Stored(DB, g) /\ U # AuthorOf(DB, g)) =>
          LET r == delete_prompt(DB, g, U)
              a == AuthorOf(DB, g)
          IN /\ r.outcome = "Unauthorized"
             /\ r.db.prompts = prompts
             /\ r.db.tags = tags
             /\ r.db.prompt_tags = prompt_tags
             /\ get_prompt(r.db, g, a).result = SelectedRow(DB, RowOf(DB, g))
             /\ get_prompt(r.db, g, a) = get_prompt(DB, g, a)

\* An ownership check of delete_prompt has just raised Unauthorized, and a
\* prompt that carries tags is stored.
C3_Witness ==
    /\ last = [op |-> "_check_prompt_ownership", outcome |-> "Unauthorized"]
    /\ \E g \in Guids :
          /\ Stored(DB, g)
          /\ TagSetOf(DB, g, AuthorOf(DB, g)) # {}

(***************************************************************************)
(* C4 - No orphaned associations.  When every row of prompt_tags           *)
(* references a stored prompt row and a stored tag row, it still does      *)
(* after a delete_prompt: the call removes the associations of the prompt  *)
(* it deletes.                                                             *)
(***************************************************************************)
C4_NoOrphanedAssociations ==
    NoOrphans(DB) =>
       \A g \in Guids, U \in Contexts : NoOrphans(delete_prompt(DB, g, U).db)

(***************************************************************************)
(* C5 - Owner delete removes the prompt.  delete_prompt by the author      *)
(* completes, after which get_prompt raises RecordNotFound, the query of   *)
(* list_prompts does not fetch the guid, and every other prompt row is     *)
(* unchanged.                                                              *)
(***************************************************************************)
C5_OwnerDeleteRemovesPrompt ==
    \A g \in Guids, U \in Contexts :
       (Stored(DB, g) /\ U = AuthorOf(DB, g)) =>
          LET r == delete_prompt(DB, g, U)
          IN /\ r.outcome = "ok"
             /\ get_prompt(r.db, g, U).outcome = "RecordNotFound"
             /\ g \notin ListedGuids(r.db, U)
             /\ r.db.prompts = {p \in prompts : p.guid # g}

\* The DELETE of a delete_prompt has just run and, of two prompts created,
\* one is still stored.
C5_Witness ==
    /\ last = [op |-> "delete_prompt", outcome |-> "ok"]
    /\ Cardinality(prompts) = 1
    /\ guid_seq = 2

(***************************************************************************)
(* C6 - Full tag replacement in every owner scope.  For a stored prompt    *)
(* whose author is U, update_prompt acting as U with tag list T makes      *)
(* get_prompt(g, U) return exactly the tags of T (the empty set for the    *)
(* empty list), and doing it twice gives what doing it once gives.         *)
(***************************************************************************)
C6_FullTagReplacement ==
    \A g \in Guids, U \in Contexts, pl \in Payloads, tl \in TagLists :
       (Stored(DB, g) /\ U = AuthorOf(DB, g)) =>
          LET once  == update_prompt(DB, g, pl.content, pl.display_name, tl, U)
              twice == update_prompt(once, g, pl.content, pl.display_name, tl, U)
          IN /\ get_prompt(once, g, U).outcome = "ok"
             /\ TagSetOf(once, g, U) = SeqToSet(tl)
             /\ TagSetOf(twice, g, U) = TagSetOf(once, g, U)

(***************************************************************************)
(* C7 - Listing and name lookup are ownership-scoped.  list_prompts(U)     *)
(* returns exactly the stored prompts whose author is U's username (null   *)
(* for the absent user), the empty sequence when there is none;            *)
(* get_prompt_by_name(n, U) returns only a prompt named n whose author is  *)
(* U and raises RecordNotFound when no such prompt is stored.              *)
(***************************************************************************)
C7_ListingAndNameLookupScoped ==
    \A U \in Contexts :
       LET l == list_prompts(DB, U)
           inScope == {p \in prompts : p.author = U}
       IN /\ l.outcome = "ok"
          /\ Len(l.results) = Cardinality(inScope)
          /\ \A i \in DOMAIN l.results :
                /\ l.results[i].author = U
                /\ \E p \in inScope : l.results[i] = SelectedRow(DB, p)
          /\ \A p \in inScope : \E i \in DOMAIN l.results : l.results[i].guid = p.guid
          /\ \A n \in Names :
                \A r \in get_prompt_by_name(DB, n, U) :
                   /\ (r.outcome = "ok") =>
                         /\ r.result.display_name = n
                         /\ r.result.author = U
                         /\ \E p \in inScope : r.result = SelectedRow(DB, p)
                   /\ (r.outcome = "RecordNotFound") <=>
                         ~ \E p \in inScope : p.display_name = n
                   /\ r.outcome \in {"ok", "RecordNotFound"}

(***************************************************************************)
(* C8 - Add-tag / remove-tag are observable in scope.  For a stored prompt *)
(* whose author is U, add_tag_to_prompt(g, t, U) makes the tag set         *)
(* get_prompt(g, U) returns the previous set plus t,                       *)
(* remove_tag_from_prompt(g, t, U) makes it the previous set minus t,      *)
(* however often t had been added, and the tags of every other prompt stay *)
(* as they were.                                                           *)
(***************************************************************************)
OthersKeepTags(db, g) ==
    \A p \in prompts :
       (p.guid # g) =>
          /\ Stored(db, p.guid)
          /\ get_prompt(db, p.guid, p.author) = get_prompt(DB, p.guid, p.author)

C8_AddRemoveTagObservable ==
    \A g \in Guids, U \in Contexts, t \in Tags :
       (Stored(DB, g) /\ U = AuthorOf(DB, g)) =>
          LET added   == add_tag_to_prompt(DB, g, t, U)
              removed == remove_tag_from_prompt(DB, g, t, U)
          IN /\ get_prompt(added, g, U).outcome = "ok"
             /\ TagSetOf(added, g, U) = TagSetOf(DB, g, U) \cup {t}
             /\ get_prompt(removed, g, U).outcome = "ok"
             /\ TagSetOf(removed, g, U) = TagSetOf(DB, g, U) \ {t}
             /\ OthersKeepTags(added, g)
             /\ OthersKeepTags(removed, g)

(***************************************************************************)
(* C9 - Tag table deduplication.  The tag table holds at most one row per  *)
(* tag string; adding a tag whose string is already in the table leaves    *)
(* the table as it was and still adds the association to the in-scope      *)
(* prompt.                                                                 *)
(***************************************************************************)
C9_TagTableDeduplicated ==
    /\ \A t1 \in tags, t2 \in tags : (t1.tag = t2.tag) => (t1 = t2)
    /\ \A g \in Guids, U \in Contexts, t \in tags :
          LET db == add_tag_to_prompt(DB, g, t.tag, U)
              x  == <<RowOf(DB, g).id, t.id>>
          IN /\ db.tags = tags
             /\ (Stored(DB, g) /\ U = AuthorOf(DB, g)) =>
                   /\ BagIn(x, db.prompt_tags)
                   /\ CopiesIn(x, db.prompt_tags) = CopiesIn(x, prompt_tags) + 1

\* A statement of add_tag_to_prompt has just run and one tag row is associated
\* with two prompts: the tag string was upserted while it was in the table.
C9_Witness ==
    /\ last.op = "add_tag_to_prompt"
    /\ \E t \in tags : \E p1 \in prompts, p2 \in prompts :
          /\ p1 # p2
          /\ BagIn(<<p1.id, t.id>>, prompt_tags)
          /\ BagIn(<<p2.id, t.id>>, prompt_tags)

(***************************************************************************)
(* C10 - The two authorization mechanisms agree.  For every stored guid    *)
(* and every context the ownership check of delete passes exactly when     *)
(* the scoped query of get_prompt matches the row (the call does not raise *)
(* RecordNotFound), and exactly when the scope predicates of add-tag,      *)
(* remove-tag and remove-all-tags match it.                                *)
(***************************************************************************)
C10_AuthorizationMechanismsAgree ==
    \A g \in Guids, U \in Contexts :
       Stored(DB, g) =>
          LET passes == _check_prompt_ownership(DB, g, U) # "Unauthorized"
              a == AuthorOf(DB, g)
          IN /\ passes <=> (get_prompt(DB, g, U).outcome # "RecordNotFound")
             /\ passes <=> (get_prompt(DB, g, U).result = SelectedRow(DB, RowOf(DB, g)))
             /\ passes <=> add_tag_scope(a, U)
             /\ passes <=> remove_tag_scope(a, U)
             /\ passes <=> remove_all_tags_scope(a, U)
             /\ _check_prompt_ownership(DB, g, U) \in {"ok", "Unauthorized"}

\* The query of a get_prompt has just matched a row while an anonymous prompt
\* and a prompt of a user are stored: both mechanisms are exercised on both
\* kinds of owner.
C10_Witness ==
    /\ last.op = "get_prompt"
    /\ last.outcome # "RecordNotFound"
    /\ \E p \in prompts : p.author = None
    /\ \E p \in prompts : p.author \in Users

(***************************************************************************)
(* C11 - Update reassigns ownership unconditionally.  For every stored     *)
(* guid, whatever its author, and every acting context V, update_prompt    *)
(* raises nothing and sets content, display_name and author (V's username, *)
(* null for the absent user) of the row; every author in the table is null *)
(* or a username of an acting context; afterwards get_prompt(g, V)         *)
(* succeeds, get_prompt(g, previous owner) raises RecordNotFound when the  *)
(* owner changed, and the ownership check of delete passes for V.          *)
(***************************************************************************)
C11_UpdateReassignsOwnership ==
    /\ \A p \in prompts : p.author \in Contexts
    /\ \A g \in Guids, V \in Contexts, pl \in Payloads, tl \in TagLists :
          Stored(DB, g) =>
             LET a   == AuthorOf(DB, g)
                 db  == update_prompt(DB, g, pl.content, pl.display_name, tl, V)
                 row == RowOf(db, g)
             IN /\ Stored(db, g)
                /\ row.content = pl.content
                /\ row.display_name = pl.display_name
                /\ row.author = V
                /\ get_prompt(db, g, V).outcome = "ok"
                /\ (a # V) => (get_prompt(db, g, a).outcome = "RecordNotFound")
                /\ _check_prompt_ownership(db, g, V) = "ok"

(***************************************************************************)
(* C12 - Error kinds map to the documented status codes.  Unauthorized     *)
(* maps to 401 and RecordNotFound to 404, so the two authorization         *)
(* failures a call can end in are answered with different codes;           *)
(* DataValidation and BadRequest map to 400, AuthenticationFailed to 401,  *)
(* OperationNotAllowed to 403, EndpointNotFound to 404,                    *)
(* ConstraintViolation to 409, the generic and DB-connection errors to 500.*)
(***************************************************************************)
C12_StatusCodes ==
    /\ (last.outcome = "Unauthorized") =>
          (EXCEPTION_STATUS_CODES[ExceptionClassOf(last.outcome)] = 401)
    /\ (last.outcome = "RecordNotFound") =>
          (EXCEPTION_STATUS_CODES[ExceptionClassOf(last.outcome)] = 404)
    /\ EXCEPTION_STATUS_CODES[ExceptionClassOf("Unauthorized")]
          # EXCEPTION_STATUS_CODES[ExceptionClassOf("RecordNotFound")]
    /\ EXCEPTION_STATUS_CODES.DataValidationError = 400
    /\ EXCEPTION_STATUS_CODES.BadRequestError = 400
    /\ EXCEPTION_STATUS_CODES.AuthenticationError = 401
    /\ EXCEPTION_STATUS_CODES.OperationNotAllowedError = 403
    /\ EXCEPTION_STATUS_CODES.EndpointNotFoundError = 404
    /\ EXCEPTION_STATUS_CODES.ConstraintViolationError = 409
    /\ EXCEPTION_STATUS_CODES.PromptException = 500
    /\ EXCEPTION_STATUS_CODES.DBConnectionError = 500

\* The ownership check of a delete_prompt of an anonymous prompt has just
\* raised Unauthorized.
C12_Witness ==
    /\ last.outcome = "Unauthorized"
    /\ \A p \in prompts : p.author = None
    /\ prompts # {}

(***************************************************************************)
(* C13 - Out-of-scope tag mutations are silent no-ops on associations.     *)
(* For a stored prompt with author a and a context V other than a,         *)
(* add_tag_to_prompt and remove_tag_from_prompt leave prompt_tags and      *)
(* every prompt row as they were (add-tag may insert the tag string into   *)
(* tags), so what the owner's query fetches for the prompt does not        *)
(* change.                                                                 *)
(***************************************************************************)
C13_OutOfScopeTagMutationsAreNoOps ==
    \A g \in Guids, V \in Contexts, t \in Tags :
       (Stored(DB, g) /\ V # AuthorOf(DB, g)) =>
          LET a       == AuthorOf(DB, g)
              added   == add_tag_to_prompt(DB, g, t, V)
              removed == remove_tag_from_prompt(DB, g, t, V)
          IN /\ added.prompt_tags = prompt_tags
             /\ added.prompts = prompts
             /\ tags \subseteq added.tags
             /\ added.tags \ tags \subseteq {r \in added.tags : r.tag = t}
             /\ removed = DB
             /\ get_prompt(added, g, a) = get_prompt(DB, g, a)
             /\ get_prompt(removed, g, a) = get_prompt(DB, g, a)

\* A statement of add_tag_to_prompt has just run, every guid is stored, and
\* the tag table holds a tag string that no association row references.
C13_Witness ==
    /\ last.op = "add_tag_to_prompt"
    /\ \A g \in Guids : Stored(DB, g)
    /\ prompt_tags = EmptyBag
    /\ tags # {}

(***************************************************************************)
(* C14 - Non-atomic tag replacement is observable.  A get_prompt of        *)
(* another request that runs right after the remove-all statement of a     *)
(* tag replacement has emptied the tags of an anonymous prompt returns the *)
(* prompt, with the empty tag set.                                         *)
(***************************************************************************)
C14_InterleavedReadReturnsPartialTags ==
    [][\A g \in Guids :
         (/\ last'.op = "remove_all_tags_from_prompt"
          /\ Stored(DB', g)
          /\ AuthorOf(DB', g) = None
          /\ TagsOfGuid(DB, g) # {}
          /\ TagsOfGuid(DB', g) = {})
            => LET r == get_prompt(DB', g, None)
               IN /\ r.outcome = "ok"
                  /\ r.result.tags = EmptyBag]_vars

(***************************************************************************)
(* C15 - Update on a nonexistent guid is a no-op and not an error.  For a  *)
(* guid that is not stored, update_prompt raises nothing, creates no       *)
(* prompt row, modifies no prompt row and adds or removes no association.  *)
(***************************************************************************)
C15_UpdateOfMissingGuidIsNoOp ==
    /\ (last.op = "update_prompt") => (last.outcome = "ok")
    /\ \A g \in Guids \cup {NoGuid}, U \in Contexts, pl \in Payloads, tl \in TagLists :
          (~ Stored(DB, g)) =>
             LET db == update_prompt(DB, g, pl.content, pl.display_name, tl, U)
             IN /\ db.prompts = prompts
                /\ db.prompt_tags = prompt_tags
                /\ db.next_prompt_id = next_prompt_id

\* The UPDATE of an update_prompt has just run on a guid that is not stored:
\* a prompt was created and deleted, and association rows are in the table.
C15_Witness ==
    /\ last = [op |-> "update_prompt", outcome |-> "ok"]
    /\ guid_seq = 1
    /\ prompts = {}
    /\ prompt_tags # EmptyBag

(***************************************************************************)
(* C16 - Identity is immutable and tags are never collected.               *)
(* update_prompt, add_tag_to_prompt and remove_tag_from_prompt keep the    *)
(* (id, guid) pairs of the prompt rows as they are, creating and removing  *)
(* none; no call of any method removes a row of the tag table.             *)
(***************************************************************************)
Identities(db) == {<<p.id, p.guid>> : p \in db.prompts}

C16_IdentityImmutableTagsKept ==
    [](\A g \in Guids, U \in Contexts :
          /\ \A pl \in Payloads, tl \in TagLists :
                LET updated == update_prompt(DB, g, pl.content, pl.display_name, tl, U)
                    created == create_prompt(DB, make_guid(guid_seq + 1), pl.content,
                                             pl.display_name, tl, U).db
                IN /\ Identities(updated) = Identities(DB)
                   /\ tags \subseteq updated.tags
                   /\ tags \subseteq created.tags
          /\ \A t \in Tags :
                LET added   == add_tag_to_prompt(DB, g, t, U)
                    removed == remove_tag_from_prompt(DB, g, t, U)
                IN /\ Identities(added) = Identities(DB)
                   /\ Identities(removed) = Identities(DB)
                   /\ tags \subseteq added.tags
                   /\ tags \subseteq removed.tags
          /\ tags \subseteq delete_prompt(DB, g, U).db.tags)

\* The statement of a remove_tag_from_prompt has just run on a stored prompt
\* and the tag table keeps a row that no association references any more.
C16_Witness ==
    /\ last.op = "remove_tag_from_prompt"
    /\ prompts # {}
    /\ \E t \in tags : \A x \in BagToSet(prompt_tags) : x[2] # t.id

(***************************************************************************)
(* C17 - The tag replacement inside create_prompt and update_prompt runs   *)
(* in the anonymous scope.  As claimed: every statement of a create_prompt *)
(* or update_prompt call made with a user leaves prompt_tags exactly as it *)
(* was, whatever tag list the call is given.                               *)
(***************************************************************************)
C17_UserCallNeverChangesAssociations ==
    [][(inflight' # inflight) => (prompt_tags' = prompt_tags)]_vars

\* The call as no other request disturbs it, from the tables as they are.
C17_UndisturbedCall ==
    \A U \in Users, pl \in Payloads, tl \in TagLists :
       /\ create_prompt(DB, make_guid(guid_seq + 1), pl.content, pl.display_name,
                        tl, U).db.prompt_tags = prompt_tags
       /\ \A g \in Guids \cup {NoGuid} :
             update_prompt(DB, g, pl.content, pl.display_name, tl, U).prompt_tags
                = prompt_tags

\* One statement of the followed call: its INSERT or UPDATE (the call
\* begins), or a statement of its tag replacement.
C17_StatementOfFollowedCall ==
    /\ (inflight = Idle /\ inflight' # Idle) =>
          /\ prompt_tags' = prompt_tags
          /\ Stored(DB', inflight'.guid) => (AuthorOf(DB', inflight'.guid) \in Users)
    /\ (inflight # Idle /\ inflight' # inflight) =>
          /\ prompts' = prompts
          /\ (Stored(DB, inflight.guid) /\ AuthorOf(DB, inflight.guid) = None)
                \/ (prompt_tags' = prompt_tags)

(***************************************************************************)
(* C17, amended - A create_prompt or update_prompt call made with a user   *)
(* that no statement of another request interleaves leaves prompt_tags     *)
(* exactly as it was, whatever tag list it is given and whoever owned the  *)
(* prompt before.  Statement by statement: the INSERT or UPDATE of the     *)
(* call leaves prompt_tags as it was and the row of the guid with a user   *)
(* as author; each statement of its tag replacement leaves the prompt rows *)
(* as they were, and leaves prompt_tags as it was unless the row of the    *)
(* guid has author NULL when the statement runs.                           *)
(***************************************************************************)
C17_TagReplacementIsAnonymousOnly ==
    /\ [](inflight = Idle => C17_UndisturbedCall)
    /\ [][C17_StatementOfFollowedCall]_vars

\* The followed call of a user has run its remove-all and its upsert on a
\* prompt that a user owns and that carries tags, and the tags are there.
C17_Witness ==
    /\ inflight.pc = "link"
    /\ last.op = "add_tag_to_prompt"
    /\ Stored(DB, inflight.guid)
    /\ AuthorOf(DB, inflight.guid) \in Users
    /\ GroupConcatTags(DB, RowOf(DB, inflight.guid).id) # EmptyBag

(***************************************************************************)
(* C18 - delete_prompt of a guid that is not stored (never created, or     *)
(* already deleted) ends in RecordNotFound for every context and leaves    *)
(* the three tables as they were.                                          *)
(***************************************************************************)
C18_DeleteOfMissingGuidIsRecordNotFound ==
    [][(prompts = {} /\ last'.op = "_check_prompt_ownership")
          => /\ last'.outcome = "RecordNotFound"
             /\ DB' = DB]_vars

====
